---- MODULE Spec2Model ----
(***************************************************************************)
(* The in-memory key/value database of simple_database.py: the store       *)
(* (Data), the transaction handler (TransactionHandler), the facade        *)
(* (Database) and the console (DBConsole).                                 *)
(*                                                                         *)
(* Python dictionaries are functions whose DOMAIN is the set of keys       *)
(* present; Python lists are sequences; Python's None is the value None    *)
(* below, which no key or value of the inputs equals.                      *)
(***************************************************************************)
EXTENDS Integers, Sequences, FiniteSets, TLC

\* Python's None singleton.
None == "<None>"

\* The keys and the values the calls are made with.  Values are opaque
\* strings; "" is the empty string, the one string Python treats as false.
Keys == {"a", "b"}
Values == {"", "1"}

\* Bounds of the model: the nesting depth of BEGIN, and how far above the
\* number of store keys holding a value the store's count of it may be.
MaxDepth == 2
MaxExcess == 1

\* Bound of the console model: the nesting depth of BEGIN lines.
\* Transactions open at once in the behaviours that include the reads.
MaxReadDepth == 1

MaxConsoleDepth == 1

-----------------------------------------------------------------------------
(* Python built-ins *)

EmptyDict == [x \in {} |-> None]

\* d.get(k, default)
DictGet(d, k, default) == IF k \in DOMAIN d THEN d[k] ELSE default

\* d[k] = v
DictSet(d, k, v) == [x \in DOMAIN d \cup {k} |-> IF x = k THEN v ELSE d[x]]

\* d.pop(k, None)
DictPop(d, k) == [x \in DOMAIN d \ {k} |-> d[x]]

\* key_list[-1]
Last(s) == s[Len(s)]

\* key_list.pop() leaves this list behind
Front(s) == SubSeq(s, 1, Len(s) - 1)

\* key_list[-1] = v
SetLast(s, v) == [s EXCEPT ![Len(s)] = v]

\* Truth value of a string-or-None in `if value:`
Truthy(v) == v /= None /\ v /= ""

-----------------------------------------------------------------------------
(* class Data *)

\* Data.modify_freq without the removal of a record that reaches 0.
Data_modify_freq_keeps_zero(values_freq, key_of_value, num) ==
    IF key_of_value /= None
    THEN DictSet(values_freq, key_of_value,
                 DictGet(values_freq, key_of_value, 0) + num)
    ELSE values_freq

\* Data.modify_freq(values_freq, key_of_value, num)
Data_modify_freq(values_freq, key_of_value, num) ==
    IF key_of_value /= None
    THEN LET n == DictGet(values_freq, key_of_value, 0) + num
         IN  IF n = 0
             THEN DictPop(values_freq, key_of_value)
             ELSE DictSet(values_freq, key_of_value, n)
    ELSE values_freq

Data_increase_freq(values_freq, key_of_value) ==
    Data_modify_freq(values_freq, key_of_value, 1)

Data_decrease_freq(values_freq, key_of_value) ==
    Data_modify_freq(values_freq, key_of_value, -1)

-----------------------------------------------------------------------------
(* The whole object graph reachable from one Database instance, as a      *)
(* record db:                                                              *)
(*   db.data, db.values_freq      Database.database (a Data)               *)
(*   db.tdata, db.tfreq           TransactionHandler.transactions (a Data) *)
(*   db.transactions_opened       TransactionHandler.transactions_opened   *)
(* The methods below are functions from db (and arguments) to the db      *)
(* after the call, with the return value where there is one.               *)

\* Database.__init__ and TransactionHandler.__init__
NewDatabase ==
    [data |-> EmptyDict, values_freq |-> EmptyDict,
     tdata |-> EmptyDict, tfreq |-> EmptyDict,
     transactions_opened |-> <<>>]

(* class TransactionHandler *)

get_active_size(db) == Len(db.transactions_opened)

is_active(db) == get_active_size(db) > 0

is_one_active(db) == get_active_size(db) = 1

\* TransactionHandler.clear leaving the frequency delta as it is.
clear_keeps_delta(db) ==
    [db EXCEPT !.tdata = EmptyDict, !.transactions_opened = <<>>]

\* TransactionHandler.clear
clear(db) ==
    [db EXCEPT !.tdata = EmptyDict, !.tfreq = EmptyDict,
               !.transactions_opened = <<>>]

\* TransactionHandler.get: (value, found)
TransactionHandler_get(db, key) ==
    LET key_list == DictGet(db.tdata, key, <<>>)
    IN  IF Len(key_list) > 0
        THEN [value |-> Last(key_list), found |-> TRUE]
        ELSE [value |-> None, found |-> FALSE]

\* Record with the overwrite branch lost: a transaction's second write to a
\* key is dropped.
Record_keeps_first_write(db, key, value) ==
    LET n == Len(db.transactions_opened)
        latest_transaction == db.transactions_opened[n]
        key_list == DictGet(db.tdata, key, <<>>)
    IN  IF key \in latest_transaction
        THEN db
        ELSE [db EXCEPT !.tdata = DictSet(db.tdata, key, Append(key_list, value)),
                        !.transactions_opened[n] = latest_transaction \cup {key}]

\* Record with the overwrite branch lost: every write appends an entry.
Record_always_appends(db, key, value) ==
    LET n == Len(db.transactions_opened)
        latest_transaction == db.transactions_opened[n]
        key_list == DictGet(db.tdata, key, <<>>)
    IN  [db EXCEPT !.tdata = DictSet(db.tdata, key, Append(key_list, value)),
                   !.transactions_opened[n] = latest_transaction \cup {key}]

\* The append-or-overwrite of TransactionHandler.set and .unset: the value
\* recorded for key by the latest transaction.
Record(db, key, value) ==
    LET n == Len(db.transactions_opened)
        latest_transaction == db.transactions_opened[n]
        key_list == DictGet(db.tdata, key, <<>>)
    IN  IF key \in latest_transaction
        THEN [db EXCEPT !.tdata = DictSet(db.tdata, key, SetLast(key_list, value))]
        ELSE [db EXCEPT !.tdata = DictSet(db.tdata, key, Append(key_list, value)),
                        !.transactions_opened[n] = latest_transaction \cup {key}]

\* TransactionHandler.set
TransactionHandler_set(db, key, old_value, new_value) ==
    IF is_active(db)
    THEN LET r == Record(db, key, new_value)
         IN  [r EXCEPT !.tfreq =
                 Data_increase_freq(Data_decrease_freq(r.tfreq, old_value), new_value)]
    ELSE db

\* TransactionHandler.unset without its Data.decrease_freq.
TransactionHandler_unset_keeps_count(db, key, old_value) ==
    IF is_active(db) /\ old_value /= None
    THEN Record(db, key, None)
    ELSE db

\* TransactionHandler.unset
TransactionHandler_unset(db, key, old_value) ==
    IF is_active(db) /\ old_value /= None
    THEN LET r == Record(db, key, None)
         IN  [r EXCEPT !.tfreq = Data_decrease_freq(r.tfreq, old_value)]
    ELSE db

\* TransactionHandler.num_equal_to
TransactionHandler_num_equal_to(db, value) == DictGet(db.tfreq, value, 0)

\* TransactionHandler.begin starting the new transaction on a history and a
\* delta of its own.
TransactionHandler_begin_fresh_data(db) ==
    [db EXCEPT !.transactions_opened = Append(db.transactions_opened, {}),
               !.tdata = EmptyDict, !.tfreq = EmptyDict]

\* TransactionHandler.begin
TransactionHandler_begin(db) ==
    [db EXCEPT !.transactions_opened = Append(db.transactions_opened, {})]

\* rollback_key without the fall-back to the store's value of the key.
rollback_key_no_store_fallback(db, modified_key) ==
    LET key_list == Front(db.tdata[modified_key])
        modified_value == Last(db.tdata[modified_key])
        popped == [db EXCEPT !.tdata = DictSet(db.tdata, modified_key, key_list)]
        got == TransactionHandler_get(popped, modified_key)
        previous_value == got.value
        freq == Data_decrease_freq(
                    Data_increase_freq(db.tfreq, previous_value), modified_value)
    IN  [popped EXCEPT !.tfreq = freq,
                       !.tdata = IF Len(key_list) = 0
                                 THEN DictPop(popped.tdata, modified_key)
                                 ELSE popped.tdata]

\* rollback_key leaving a key whose list has become empty in the history.
rollback_key_keeps_empty(db, modified_key) ==
    LET key_list == Front(db.tdata[modified_key])
        modified_value == Last(db.tdata[modified_key])
        popped == [db EXCEPT !.tdata = DictSet(db.tdata, modified_key, key_list)]
        got == TransactionHandler_get(popped, modified_key)
        previous_value == IF got.found THEN got.value
                          ELSE DictGet(db.data, modified_key, None)
        freq == Data_decrease_freq(
                    Data_increase_freq(db.tfreq, previous_value), modified_value)
    IN  [popped EXCEPT !.tfreq = freq]

\* One iteration of the loop of TransactionHandler.rollback, for modified_key.
rollback_key(db, modified_key) ==
    LET key_list == Front(db.tdata[modified_key])
        modified_value == Last(db.tdata[modified_key])
        popped == [db EXCEPT !.tdata = DictSet(db.tdata, modified_key, key_list)]
        got == TransactionHandler_get(popped, modified_key)
        previous_value == IF got.found THEN got.value
                          ELSE DictGet(db.data, modified_key, None)
        freq == Data_decrease_freq(
                    Data_increase_freq(db.tfreq, previous_value), modified_value)
    IN  [popped EXCEPT !.tfreq = freq,
                       !.tdata = IF Len(key_list) = 0
                                 THEN DictPop(popped.tdata, modified_key)
                                 ELSE popped.tdata]

\* The loop `for modified_key in latest_transaction` of rollback.
RECURSIVE rollback_keys(_, _)
rollback_keys(db, latest_transaction) ==
    IF latest_transaction = {} THEN db
    ELSE LET modified_key == CHOOSE k \in latest_transaction : TRUE
         IN  rollback_keys(rollback_key(db, modified_key),
                           latest_transaction \ {modified_key})

\* TransactionHandler.rollback taking the branch of a single open
\* transaction at every depth.
TransactionHandler_rollback_clears_all(db) ==
    IF is_active(db) THEN clear(db) ELSE db

\* TransactionHandler.rollback closing a single open transaction without
\* self.clear(): the history and the delta stay.
TransactionHandler_rollback_keeps_writes(db) ==
    IF is_active(db)
    THEN IF is_one_active(db)
         THEN [db EXCEPT !.transactions_opened = <<>>]
         ELSE LET latest_transaction == Last(db.transactions_opened)
                  popped == [db EXCEPT !.transactions_opened =
                                           Front(db.transactions_opened)]
              IN  rollback_keys(popped, latest_transaction)
    ELSE db

\* TransactionHandler.rollback
TransactionHandler_rollback(db) ==
    IF is_active(db)
    THEN IF is_one_active(db)
         THEN clear(db)
         ELSE LET latest_transaction == Last(db.transactions_opened)
                  popped == [db EXCEPT !.transactions_opened =
                                           Front(db.transactions_opened)]
              IN  rollback_keys(popped, latest_transaction)
    ELSE db

\* The first loop of TransactionHandler.commit: every key's last value goes
\* to the store, or the key leaves the store when that value is false.
RECURSIVE commit_data(_, _, _)
commit_data(data, tdata, keys) ==
    IF keys = {} THEN data
    ELSE LET key == CHOOSE k \in keys : TRUE
             value == Last(tdata[key])
         IN  commit_data(IF Truthy(value) THEN DictSet(data, key, value)
                                          ELSE DictPop(data, key),
                         tdata, keys \ {key})

\* The second loop of TransactionHandler.commit.
RECURSIVE commit_freq(_, _, _)
commit_freq(values_freq, tfreq, values) ==
    IF values = {} THEN values_freq
    ELSE LET value == CHOOSE v \in values : TRUE
         IN  commit_freq(Data_modify_freq(values_freq, value, tfreq[value]),
                         tfreq, values \ {value})

\* TransactionHandler.commit without its final self.clear().
TransactionHandler_commit_no_clear(db) ==
    IF is_active(db)
    THEN [db EXCEPT
            !.data = commit_data(db.data, db.tdata, DOMAIN db.tdata),
            !.values_freq = commit_freq(db.values_freq, db.tfreq, DOMAIN db.tfreq)]
    ELSE db

\* TransactionHandler.commit
TransactionHandler_commit(db) ==
    IF is_active(db)
    THEN clear([db EXCEPT
                  !.data = commit_data(db.data, db.tdata, DOMAIN db.tdata),
                  !.values_freq = commit_freq(db.values_freq, db.tfreq, DOMAIN db.tfreq)])
    ELSE db

-----------------------------------------------------------------------------
(* class Database.  Each method gives [db, ret]: the state after the call *)
(* and what the call returned or raised.                                   *)

\* What a call gives back: nothing (None), a string, a boolean, an integer,
\* or an exception.
RetNone == [kind |-> "None", s |-> None, b |-> FALSE, n |-> 0]
RetStr(v) == IF v = None THEN RetNone
             ELSE [kind |-> "str", s |-> v, b |-> FALSE, n |-> 0]
RetBool(x) == [kind |-> "bool", s |-> None, b |-> x, n |-> 0]
RetInt(i) == [kind |-> "int", s |-> None, b |-> FALSE, n |-> i]
Raise(exc) == [kind |-> "raise", s |-> exc, b |-> FALSE, n |-> 0]

is_transaction_active(db) == is_active(db)

\* Database.get: the value returned
Database_get(db, key) ==
    LET got == TransactionHandler_get(db, key)
    IN  IF is_transaction_active(db) /\ got.found
        THEN got.value
        ELSE DictGet(db.data, key, None)

\* Database.set without the test old_value != new_value.
Database_set_always_writes(db, key, new_value) ==
    LET old_value == Database_get(db, key)
    IN  IF is_transaction_active(db)
        THEN [db |-> TransactionHandler_set(db, key, old_value, new_value),
              ret |-> RetNone]
        ELSE [db |-> [db EXCEPT
                  !.data = DictSet(db.data, key, new_value),
                  !.values_freq = Data_increase_freq(
                      Data_decrease_freq(db.values_freq, old_value), new_value)],
              ret |-> RetNone]

\* Database.set writing to the store as well while a transaction is open.
Database_set_writes_through(db, key, new_value) ==
    LET old_value == Database_get(db, key)
        store == [db EXCEPT
                     !.data = DictSet(db.data, key, new_value),
                     !.values_freq = Data_increase_freq(
                         Data_decrease_freq(db.values_freq, old_value), new_value)]
    IN  IF old_value /= new_value
        THEN IF is_transaction_active(db)
             THEN [db |-> TransactionHandler_set(store, key, old_value, new_value),
                   ret |-> RetNone]
             ELSE [db |-> store, ret |-> RetNone]
        ELSE [db |-> db, ret |-> RetNone]

\* Database.set
Database_set(db, key, new_value) ==
    LET old_value == Database_get(db, key)
    IN  IF old_value /= new_value
        THEN IF is_transaction_active(db)
             THEN [db |-> TransactionHandler_set(db, key, old_value, new_value),
                   ret |-> RetNone]
             ELSE [db |-> [db EXCEPT
                       !.data = DictSet(db.data, key, new_value),
                       !.values_freq = Data_increase_freq(
                           Data_decrease_freq(db.values_freq, old_value), new_value)],
                   ret |-> RetNone]
        ELSE [db |-> db, ret |-> RetNone]

\* The attributes a Database instance has (Database.__init__).
Database_attributes == {"database", "transaction_handler"}

\* Database.unset with its two statements of the branch without a
\* transaction in the other order: the frequency is decreased, then
\* self.data is evaluated.
Database_unset_counts_first(db, key) ==
    LET old_value == Database_get(db, key)
    IN  IF is_transaction_active(db)
        THEN [db |-> TransactionHandler_unset(db, key, old_value), ret |-> RetNone]
        ELSE [db |-> [db EXCEPT !.values_freq =
                          Data_decrease_freq(db.values_freq, old_value)],
              ret |-> IF "data" \notin Database_attributes
                      THEN Raise("AttributeError") ELSE RetNone]

\* Database.unset.  Without a transaction the method evaluates self.data,
\* an attribute no Database has: AttributeError, before anything is changed.
Database_unset(db, key) ==
    LET old_value == Database_get(db, key)
    IN  IF is_transaction_active(db)
        THEN [db |-> TransactionHandler_unset(db, key, old_value), ret |-> RetNone]
        ELSE IF "data" \notin Database_attributes
             THEN [db |-> db, ret |-> Raise("AttributeError")]
             ELSE [db |-> [db EXCEPT !.values_freq =
                               Data_decrease_freq(db.values_freq, old_value)],
                   ret |-> RetNone]

\* Database.num_equal_to: the number returned
Database_num_equal_to(db, value) ==
    DictGet(db.values_freq, value, 0) + TransactionHandler_num_equal_to(db, value)

\* A call of Database.get reading the history with setdefault: a key the
\* handler has no list for gets an empty one.
Database_get_call_setdefault(db, key) ==
    [db |-> IF is_transaction_active(db)
            THEN [db EXCEPT !.tdata =
                      DictSet(db.tdata, key, DictGet(db.tdata, key, <<>>))]
            ELSE db,
     ret |-> RetStr(Database_get(db, key))]

\* A call of Database.get: dict.get and a list index, nothing is assigned.
Database_get_call(db, key) ==
    [db |-> db, ret |-> RetStr(Database_get(db, key))]

\* A call of Database.num_equal_to: two dict.get, nothing is assigned.
Database_num_equal_to_call(db, value) ==
    [db |-> db, ret |-> RetInt(Database_num_equal_to(db, value))]

\* Database.begin
Database_begin(db) == [db |-> TransactionHandler_begin(db), ret |-> RetNone]

\* Database.rollback answering True whether or not a transaction is open.
Database_rollback_always_true(db) ==
    [db |-> TransactionHandler_rollback(db), ret |-> RetBool(TRUE)]

\* Database.rollback answering without handing the rollback to the handler.
Database_rollback_closes_nothing(db) ==
    [db |-> db, ret |-> RetBool(is_transaction_active(db))]

\* Database.rollback
Database_rollback(db) ==
    IF is_transaction_active(db)
    THEN [db |-> TransactionHandler_rollback(db), ret |-> RetBool(TRUE)]
    ELSE [db |-> db, ret |-> RetBool(FALSE)]

\* Database.commit answering True whether or not a transaction is open.
Database_commit_always_true(db) ==
    [db |-> TransactionHandler_commit(db), ret |-> RetBool(TRUE)]

\* Database.commit
Database_commit(db) ==
    IF is_transaction_active(db)
    THEN [db |-> TransactionHandler_commit(db), ret |-> RetBool(TRUE)]
    ELSE [db |-> db, ret |-> RetBool(FALSE)]

-----------------------------------------------------------------------------
(* The state: one Database instance driven through its public methods.     *)

VARIABLES
    data,                 \* Database.database.data
    values_freq,          \* Database.database.values_freq
    tdata,                \* TransactionHandler.transactions.data
    tfreq,                \* TransactionHandler.transactions.values_freq
    transactions_opened,  \* TransactionHandler.transactions_opened
    call,                 \* the method called last, with its arguments
    ret,                  \* what that call returned or raised
    snaps,                \* per open transaction, the state its begin() was called in
    direct,               \* SpecFlat: a second Database, driven without transactions
    phase,                \* SpecFlat: how far the run begin; ops1; begin; ops2; commit is
    session,              \* SpecConsole: DBConsole.listen's loop: "active", "ended", "crashed"
    output                \* SpecConsole: what the last line read made the console print

dbvars == <<data, values_freq, tdata, tfreq, transactions_opened>>
vars == <<data, values_freq, tdata, tfreq, transactions_opened, call, ret, snaps,
          direct, phase, session, output>>

\* The Database instance of the current state.
DB == [data |-> data, values_freq |-> values_freq, tdata |-> tdata, tfreq |-> tfreq,
       transactions_opened |-> transactions_opened]

\* The next state holds the Database instance d.
Becomes(d) ==
    /\ data' = d.data
    /\ values_freq' = d.values_freq
    /\ tdata' = d.tdata
    /\ tfreq' = d.tfreq
    /\ transactions_opened' = d.transactions_opened

(* What a caller observes *)

\* The number of keys k for which Database.get(k) returns v.
KeysHolding(db, v) == Cardinality({k \in Keys : Database_get(db, k) = v})

\* Database.get(k) for every key, and Database.num_equal_to(v) for every value.
View(db) == [k \in Keys |-> Database_get(db, k)]
Counts(db) == [v \in Values |-> Database_num_equal_to(db, v)]

\* The record of a call: the method, its arguments, the number of
\* transactions open when it was made, whether the call changed the Database
\* instance, and whether it changed what get or num_equal_to return.
Call(op, key, value, depth, changed, visible) ==
    [op |-> op, key |-> key, value |-> value, depth |-> depth,
     changed |-> changed, visible |-> visible]

\* A call of a Database method with outcome r = [db, ret].
Does(op, key, value, r) ==
    /\ call' = Call(op, key, value, get_active_size(DB), r.db /= DB,
                    View(r.db) /= View(DB) \/ Counts(r.db) /= Counts(DB))
    /\ Becomes(r.db)
    /\ ret' = r.ret

\* A freshly constructed Database; nothing called yet.
Init ==
    /\ data = NewDatabase.data
    /\ values_freq = NewDatabase.values_freq
    /\ tdata = NewDatabase.tdata
    /\ tfreq = NewDatabase.tfreq
    /\ transactions_opened = NewDatabase.transactions_opened
    /\ call = Call("init", None, None, 0, FALSE, FALSE)
    /\ ret = RetNone
    /\ snaps = <<>>
    /\ direct = [db |-> NewDatabase, raised |-> FALSE]
    /\ phase = "api"
    /\ session = "none"
    /\ output = RetNone

\* The number of keys the store d.data maps to v.
StoreKeysHolding(d, v) == Cardinality({k \in DOMAIN d.data : d.data[k] = v})

\* The store's frequency index stays within the model's bound.
FreqBounded(d) ==
    \A v \in DOMAIN d.values_freq :
        d.values_freq[v] - StoreKeysHolding(d, v) <= MaxExcess

Set(k, v) ==
    /\ Does("set", k, v, Database_set(DB, k, v))
    /\ UNCHANGED <<snaps, direct, phase, session, output>>

Unset(k) ==
    /\ Does("unset", k, None, Database_unset(DB, k))
    /\ UNCHANGED <<snaps, direct, phase, session, output>>

Begin ==
    /\ Len(transactions_opened) < MaxDepth
    /\ Does("begin", None, None, Database_begin(DB))
    /\ snaps' = Append(snaps, DB)
    /\ UNCHANGED <<direct, phase, session, output>>

Rollback ==
    /\ Does("rollback", None, None, Database_rollback(DB))
    /\ snaps' = IF Len(snaps) > 0 THEN Front(snaps) ELSE snaps
    /\ UNCHANGED <<direct, phase, session, output>>

Commit ==
    /\ FreqBounded(Database_commit(DB).db)
    /\ Does("commit", None, None, Database_commit(DB))
    /\ snaps' = <<>>
    /\ UNCHANGED <<direct, phase, session, output>>

Next ==
    \/ \E k \in Keys, v \in Values : Set(k, v)
    \/ \E k \in Keys : Unset(k)
    \/ Begin
    \/ Rollback
    \/ Commit

Spec == Init /\ [][Next]_vars

-----------------------------------------------------------------------------
(* The same client with the two reads among its calls.  get and           *)
(* num_equal_to assign nothing (lines 65-94, 160-182, 299-322, 390-408):  *)
(* the database after the call is the database before it.                 *)

Get(k) ==
    /\ Does("get", k, None, Database_get_call(DB, k))
    /\ UNCHANGED <<snaps, direct, phase, session, output>>

NumEqualTo(v) ==
    /\ Does("num_equal_to", None, v, Database_num_equal_to_call(DB, v))
    /\ UNCHANGED <<snaps, direct, phase, session, output>>

\* Database.begin in the behaviours with the reads.  The reads are taken
\* with no transaction open and with up to MaxReadDepth open; what is said
\* of nested transactions is checked in Spec, where begin nests to MaxDepth.
ReadsBegin ==
    /\ Len(transactions_opened) < MaxReadDepth
    /\ Does("begin", None, None, Database_begin(DB))
    /\ snaps' = Append(snaps, DB)
    /\ UNCHANGED <<direct, phase, session, output>>

NextReads ==
    \/ \E k \in Keys, v \in Values : Set(k, v)
    \/ \E k \in Keys : Unset(k)
    \/ \E k \in Keys : Get(k)
    \/ \E v \in Values : NumEqualTo(v)
    \/ ReadsBegin
    \/ Rollback
    \/ Commit

SpecReads == Init /\ [][NextReads]_vars

-----------------------------------------------------------------------------
(* SpecFlat: the run begin; ops1; begin; ops2; commit on one Database, and  *)
(* the same set/unset calls made, one for one, on a second Database         *)
(* (direct) that has no transaction open.  Both start from the same store.  *)
(* An exception ends the direct run: its later calls are never made.        *)

\* The frequency index Database.set builds for the store mapping d.
FreqOf(d) ==
    [v \in {d[k] : k \in DOMAIN d} |-> Cardinality({k \in DOMAIN d : d[k] = v})]

\* The stores that set calls without a transaction build.
StartStores == UNION {[S -> Values] : S \in SUBSET Keys}

\* The direct run makes a call with outcome r, unless it has ended.
DirectDoes(r) ==
    direct' = IF direct.raised THEN direct
              ELSE [db |-> r.db, raised |-> r.ret.kind = "raise"]

InitFlat ==
    /\ data \in StartStores
    /\ values_freq = FreqOf(data)
    /\ tdata = NewDatabase.tdata
    /\ tfreq = NewDatabase.tfreq
    /\ transactions_opened = NewDatabase.transactions_opened
    /\ call = Call("init", None, None, 0, FALSE, FALSE)
    /\ ret = RetNone
    /\ snaps = <<>>
    /\ direct = [db |-> [NewDatabase EXCEPT !.data = data,
                                            !.values_freq = values_freq],
                 raised |-> FALSE]
    /\ phase = "start"
    /\ session = "none"
    /\ output = RetNone

FlatBegin ==
    /\ phase \in {"start", "ops1"}
    /\ phase' = IF phase = "start" THEN "ops1" ELSE "ops2"
    /\ Does("begin", None, None, Database_begin(DB))
    /\ UNCHANGED <<snaps, direct, session, output>>

FlatSet(k, v) ==
    /\ phase \in {"ops1", "ops2"}
    /\ Does("set", k, v, Database_set(DB, k, v))
    /\ DirectDoes(Database_set(direct.db, k, v))
    /\ UNCHANGED <<snaps, phase, session, output>>

FlatUnset(k) ==
    /\ phase \in {"ops1", "ops2"}
    /\ Does("unset", k, None, Database_unset(DB, k))
    /\ DirectDoes(Database_unset(direct.db, k))
    /\ UNCHANGED <<snaps, phase, session, output>>

FlatCommit ==
    /\ phase = "ops2"
    /\ phase' = "done"
    /\ Does("commit", None, None, Database_commit(DB))
    /\ UNCHANGED <<snaps, direct, session, output>>

NextFlat ==
    \/ FlatBegin
    \/ \E k \in Keys, v \in Values : FlatSet(k, v)
    \/ \E k \in Keys : FlatUnset(k)
    \/ FlatCommit

SpecFlat == InitFlat /\ [][NextFlat]_vars

-----------------------------------------------------------------------------
(* SpecConsole: DBConsole.listen reading lines from standard input.  A line *)
(* is its sequence of fields, line.split().                                 *)

\* The first fields and the arguments the lines are made of.
Words == {"GET", "SET", "UNSET", "NUMEQUALTO", "BEGIN", "ROLLBACK", "COMMIT",
          "END", "get", "end", "FOO"}
Tokens == {"a", "1"}

Lines ==
    {<<>>} \cup {<<w>> : w \in Words}
           \cup {<<w, t>> : w \in Words, t \in Tokens}
           \cup {<<w, t, u>> : w \in Words, t \in Tokens, u \in Tokens}

\* str.upper() on the words above
Upper(w) ==
    CASE w = "get" -> "GET"
      [] w = "end" -> "END"
      [] OTHER -> w

\* DBConsole.__init__
end_operation == {"END"}
valid_operations_arguments ==
    {<<"GET", 1>>, <<"SET", 2>>, <<"UNSET", 1>>, <<"NUMEQUALTO", 1>>,
     <<"BEGIN", 0>>, <<"ROLLBACK", 0>>, <<"COMMIT", 0>>}

\* What a valid command does: [db, ret, out], out being what is printed.
Dispatch(db, method_name, arguments) ==
    CASE method_name = "GET" ->
            LET got == Database_get(db, arguments[1])
            IN  [db |-> db, ret |-> RetStr(got),
                 out |-> RetStr(IF Truthy(got) THEN got ELSE "NULL")]
      [] method_name = "SET" ->
            LET r == Database_set(db, arguments[1], arguments[2])
            IN  [db |-> r.db, ret |-> r.ret, out |-> RetNone]
      [] method_name = "UNSET" ->
            LET r == Database_unset(db, arguments[1])
            IN  [db |-> r.db, ret |-> r.ret, out |-> RetNone]
      [] method_name = "NUMEQUALTO" ->
            LET n == Database_num_equal_to(db, arguments[1])
            IN  [db |-> db, ret |-> RetInt(n), out |-> RetInt(n)]
      [] method_name = "BEGIN" ->
            LET r == Database_begin(db)
            IN  [db |-> r.db, ret |-> r.ret, out |-> RetNone]
      [] method_name = "ROLLBACK" ->
            LET r == Database_rollback(db)
            IN  [db |-> r.db, ret |-> r.ret,
                 out |-> IF r.ret.b THEN RetNone ELSE RetStr("NO TRANSACTION")]
      [] method_name = "COMMIT" ->
            LET r == Database_commit(db)
            IN  [db |-> r.db, ret |-> r.ret,
                 out |-> IF r.ret.b THEN RetNone ELSE RetStr("NO TRANSACTION")]

\* read_from_stdin printing nothing for a line it does not accept.
read_from_stdin_silent_reject(db, fields) ==
    LET method_name == Upper(fields[1])
        arguments == SubSeq(fields, 2, Len(fields))
        arguments_count == Len(arguments)
        quiet == [db |-> db, ret |-> RetNone, out |-> RetNone,
                  session |-> "active", did |-> "blank"]
    IN  IF Len(fields) = 0 THEN quiet
        ELSE IF method_name \in end_operation
        THEN [quiet EXCEPT !.session = "ended", !.did = "END"]
        ELSE IF <<method_name, arguments_count>> \in valid_operations_arguments
        THEN LET d == Dispatch(db, method_name, arguments)
             IN  IF d.ret.kind = "raise"
                 THEN [db |-> d.db, ret |-> d.ret, out |-> RetNone,
                       session |-> "crashed", did |-> method_name]
                 ELSE [db |-> d.db, ret |-> d.ret, out |-> d.out,
                       session |-> "active", did |-> method_name]
        ELSE [quiet EXCEPT !.did = "invalid"]

\* DBConsole.read_from_stdin on a line with the given fields: [db, ret, out,
\* session, did], did naming the branch taken.  Only EOFError is caught: any
\* other exception leaves listen.
read_from_stdin(db, fields) ==
    LET method_name == Upper(fields[1])
        arguments == SubSeq(fields, 2, Len(fields))
        arguments_count == Len(arguments)
        quiet == [db |-> db, ret |-> RetNone, out |-> RetNone,
                  session |-> "active", did |-> "blank"]
    IN  IF Len(fields) = 0 THEN quiet
        ELSE IF method_name \in end_operation
        THEN [quiet EXCEPT !.session = "ended", !.did = "END"]
        ELSE IF <<method_name, arguments_count>> \in valid_operations_arguments
        THEN LET d == Dispatch(db, method_name, arguments)
             IN  IF d.ret.kind = "raise"
                 THEN [db |-> d.db, ret |-> d.ret, out |-> RetNone,
                       session |-> "crashed", did |-> method_name]
                 ELSE [db |-> d.db, ret |-> d.ret, out |-> d.out,
                       session |-> "active", did |-> method_name]
        ELSE [quiet EXCEPT !.out = RetStr("Invalid method or number of arguments"),
                           !.did = "invalid"]

InitConsole ==
    /\ data = NewDatabase.data
    /\ values_freq = NewDatabase.values_freq
    /\ tdata = NewDatabase.tdata
    /\ tfreq = NewDatabase.tfreq
    /\ transactions_opened = NewDatabase.transactions_opened
    /\ call = Call("init", None, None, 0, FALSE, FALSE)
    /\ ret = RetNone
    /\ snaps = <<>>
    /\ direct = [db |-> NewDatabase, raised |-> FALSE]
    /\ phase = "console"
    /\ session = "active"
    /\ output = RetNone

\* One pass of the loop of listen: a line is read and executed.
ReadLine(fields) ==
    LET r == read_from_stdin(DB, fields)
    IN  /\ session = "active"
        /\ Len(r.db.transactions_opened) <= MaxConsoleDepth
        /\ call' = Call(r.did, None, None, get_active_size(DB), r.db /= DB,
                        \E t \in Tokens :
                            \/ Database_get(r.db, t) /= Database_get(DB, t)
                            \/ Database_num_equal_to(r.db, t)
                                   /= Database_num_equal_to(DB, t))
        /\ Becomes(r.db)
        /\ ret' = r.ret
        /\ session' = r.session
        /\ output' = r.out
        /\ UNCHANGED <<snaps, direct, phase>>

\* input() raises EOFError: read_from_stdin returns False.
EndOfInput ==
    /\ session = "active"
    /\ call' = Call("eof", None, None, get_active_size(DB), FALSE, FALSE)
    /\ ret' = RetNone
    /\ session' = "ended"
    /\ output' = RetNone
    /\ UNCHANGED <<dbvars, snaps, direct, phase>>

NextConsole ==
    \/ \E fields \in Lines : ReadLine(fields)
    \/ EndOfInput

SpecConsole == InitConsole /\ [][NextConsole]_vars



\* The store's frequency index counts, for every value, the store keys holding it.
StoreIndexExact(db) ==
    \A v \in Values : DictGet(db.values_freq, v, 0) = StoreKeysHolding(db, v)

-----------------------------------------------------------------------------
(* Claims *)

\* C1: in every reachable state and for every value v, num_equal_to(v) is
\* the number of keys k for which get(k) returns v.
C1_CountsMatchView ==
    \A v \in Values : Database_num_equal_to(DB, v) = KeysHolding(DB, v)

\* C2: a rollback() that closes a transaction brings back what get and
\* num_equal_to returned, and the store mapping and index, of the state the
\* transaction's begin() was called in.
C2_RollbackRestores ==
    [][(call'.op = "rollback" /\ Len(snaps) > 0) =>
          /\ View(DB') = View(Last(snaps))
          /\ Counts(DB') = Counts(Last(snaps))
          /\ data' = Last(snaps).data
          /\ values_freq' = Last(snaps).values_freq]_vars

\* C2's case: an inner transaction wrote, and its rollback has undone the
\* writes while an outer transaction with writes of its own stays open.
C2_Witness ==
    /\ call.op = "rollback"
    /\ call.visible
    /\ Len(transactions_opened) >= 1
    /\ DOMAIN tdata /= {}
    /\ DOMAIN data /= {}

\* C3: the run begin; ops1; begin; ops2; commit ends with the store mapping
\* and the store index that the same calls, made with no transaction open,
\* end with.
C3_CommitFlattens ==
    phase = "done" =>
        /\ ~direct.raised
        /\ data = direct.db.data
        /\ values_freq = direct.db.values_freq

\* C5: no well-formed command ends the session abnormally: the session ends
\* only on END or at the end of the input.
C5_NoAbnormalEnd == session /= "crashed"

\* C4: without a transaction, unset(k) of a key the store maps to v removes
\* k from the store and lowers the store's count of v by one; get(k) is then
\* None and the other keys are as before.
C4_DirectUnsetRemoves ==
    [][\A k \in Keys :
          (call'.op = "unset" /\ call'.key = k /\ ~is_transaction_active(DB)
              /\ k \in DOMAIN data) =>
          /\ ret'.kind /= "raise"
          /\ data' = DictPop(data, k)
          /\ values_freq' = Data_decrease_freq(values_freq, data[k])
          /\ Database_get(DB', k) = None]_vars

\* C6: unset(k) of a key whose merged value is absent completes normally and
\* changes nothing, with or without a transaction.
C6_UnsetAbsentNoOp ==
    [][\A k \in Keys :
          (call'.op = "unset" /\ call'.key = k /\ Database_get(DB, k) = None) =>
          /\ ret'.kind /= "raise"
          /\ UNCHANGED dbvars]_vars

\* C7: set(k, v) when get(k) already returns v leaves the store mapping, the
\* store index, the history, the frequency delta and every touched set as
\* they were.
C7_NoOpSet ==
    [][\A k \in Keys, v \in Values :
          (call'.op = "set" /\ call'.key = k /\ call'.value = v
              /\ Database_get(DB, k) = v) =>
          UNCHANGED dbvars]_vars

\* C7's case: inside a nested transaction, a key whose current value was
\* written by an enclosing transaction has been set to that value again.
C7_Witness ==
    /\ call.op = "set"
    /\ ~call.changed
    /\ Len(transactions_opened) >= 2
    /\ call.key \in DOMAIN tdata
    /\ call.key \notin Last(transactions_opened)
    /\ Database_get(DB, call.key) = call.value

\* C8: after set(k, v), get(k) returns v and get(j) of every other key j
\* returns what it returned before.
C8_SetThenGet ==
    [][\A k \in Keys, v \in Values :
          (call'.op = "set" /\ call'.key = k /\ call'.value = v) =>
          /\ Database_get(DB', k) = v
          /\ \A j \in Keys \ {k} : Database_get(DB', j) = Database_get(DB, j)]_vars

\* C8's case: a set in a nested transaction has overwritten the value an
\* enclosing transaction wrote for the key, the other key holding a value.
C8_Witness ==
    /\ call.op = "set"
    /\ call.changed
    /\ Len(transactions_opened) >= 2
    /\ Len(DictGet(tdata, call.key, <<>>)) >= 2
    /\ \E j \in Keys \ {call.key} : Database_get(DB, j) /= None

\* C9: without a transaction, set(k, v) leaves the store mapping k to v and
\* the store's index counting, for every value, the store keys holding it;
\* and no rollback changes the store.
C9_DirectSetCommits ==
    [][/\ \A k \in Keys, v \in Values :
            (call'.op = "set" /\ call'.key = k /\ call'.value = v
                /\ ~is_transaction_active(DB)) =>
            /\ DictGet(data', k, None) = v
            /\ StoreIndexExact(DB')
       /\ call'.op = "rollback" => (data' = data /\ values_freq' = values_freq)]_vars

\* C10: rollback() returns True exactly when a transaction is open; when
\* none is, it returns False and changes nothing.
C10_RollbackReturns ==
    [][call'.op = "rollback" =>
          /\ ret' = RetBool(is_transaction_active(DB))
          /\ ~is_transaction_active(DB) => UNCHANGED dbvars]_vars

\* C10's case: rollback() has been called with no transaction open, on a
\* store that holds data, and has returned False.
C10_Witness ==
    /\ call.op = "rollback"
    /\ ret = RetBool(FALSE)
    /\ DOMAIN data /= {}

\* C11: commit() returns True exactly when a transaction is open; when none
\* is, it returns False and changes nothing.
C11_CommitReturns ==
    [][call'.op = "commit" =>
          /\ ret' = RetBool(is_transaction_active(DB))
          /\ ~is_transaction_active(DB) => UNCHANGED dbvars]_vars

\* C11's case: commit() has been called with no transaction open, on a store
\* that holds data, and has returned False.
C11_Witness ==
    /\ call.op = "commit"
    /\ call.depth = 0
    /\ ret = RetBool(FALSE)
    /\ DOMAIN data /= {}

\* C12: a commit() made with n >= 1 transactions open leaves none open and
\* the history and the frequency delta empty; a rollback() or commit() called
\* right after a commit returns False and leaves the store as committed.
C12_CommitClosesAll ==
    [][/\ (call'.op = "commit" /\ is_transaction_active(DB)) =>
            /\ transactions_opened' = <<>>
            /\ DOMAIN tdata' = {}
            /\ DOMAIN tfreq' = {}
       /\ (call.op = "commit" /\ call'.op \in {"rollback", "commit"}) =>
            /\ ret' = RetBool(FALSE)
            /\ UNCHANGED dbvars]_vars

\* C12's case: a commit has closed two nested transactions at once, the
\* store holds data, and a rollback() called now returns False.
C12_Witness ==
    /\ call.op = "commit"
    /\ call.depth = 2
    /\ ret = RetBool(TRUE)
    /\ DOMAIN data /= {}
    /\ Database_rollback(DB).ret = RetBool(FALSE)

\* C13: on a commit() with a transaction open, every key of the history
\* whose last entry is the deleted marker is absent from the store
\* afterwards, every other key of the history is mapped by the store to its
\* last entry whatever that value is, and every key outside the history
\* keeps its store value.
C13_CommitWritesLast ==
    [][(call'.op = "commit" /\ is_transaction_active(DB)) =>
          \A k \in Keys :
              IF k \in DOMAIN tdata
              THEN IF Last(tdata[k]) = None
                   THEN k \notin DOMAIN data'
                   ELSE /\ k \in DOMAIN data'
                        /\ data'[k] = Last(tdata[k])
              ELSE DictGet(data', k, None) = DictGet(data, k, None)]_vars

\* C14: a commit() with a transaction open preserves the merged view: get
\* of every key and num_equal_to of every value answer after it what they
\* answered before it, and afterwards the store's index alone gives those
\* counts.
C14_CommitPreservesView ==
    [][(call'.op = "commit" /\ is_transaction_active(DB)) =>
          /\ \A k \in Keys : Database_get(DB', k) = Database_get(DB, k)
          /\ \A v \in Values :
                /\ Database_num_equal_to(DB', v) = Database_num_equal_to(DB, v)
                /\ DictGet(values_freq', v, 0) = Database_num_equal_to(DB, v)]_vars

\* C19: in every reachable state the store's index is exact for the store
\* mapping: the count of every value is the number of store keys mapped to
\* it, no entry has a count below 1, and no store key is mapped to None.
C19_StoreIndexExact ==
    /\ \A v \in Values \cup DOMAIN values_freq :
          DictGet(values_freq, v, 0) = StoreKeysHolding(DB, v)
    /\ \A v \in DOMAIN values_freq : values_freq[v] >= 1
    /\ \A k \in DOMAIN data : data[k] /= None

\* C20: in every reachable state with no transaction open the history and
\* the frequency delta are empty, and num_equal_to of every value is the
\* store's own count of it.
C20_IdleHandlerEmpty ==
    transactions_opened = <<>> =>
        /\ DOMAIN tdata = {}
        /\ DOMAIN tfreq = {}
        /\ \A v \in Values :
              Database_num_equal_to(DB, v) = DictGet(values_freq, v, 0)

\* C20's case: a rollback has just closed the only open transaction,
\* discarding writes that were visible, and the store holds data.
C20_Witness ==
    /\ transactions_opened = <<>>
    /\ call.op = "rollback"
    /\ call.depth = 1
    /\ call.visible
    /\ DOMAIN data /= {}

\* C15: with two or more transactions open, rollback() closes only the
\* innermost: the number of open transactions drops by one, and for every
\* key the innermost wrote, get afterwards returns the value last written by
\* the nearest enclosing open transaction that wrote the key (absent when
\* that is the deleted marker), or the store's value when none wrote it.
C15_RollbackInnermost ==
    [][(call'.op = "rollback" /\ Len(transactions_opened) >= 2) =>
          LET n == Len(transactions_opened)
          IN  /\ Len(transactions_opened') = n - 1
              /\ \A k \in transactions_opened[n] :
                    LET enclosing == {j \in 1..(n - 1) : k \in transactions_opened[j]}
                    IN  Database_get(DB', k) =
                            IF enclosing = {}
                            THEN DictGet(data, k, None)
                            ELSE tdata[k][Cardinality(enclosing)]]_vars

\* C15's case: a rollback made with two transactions open has undone a
\* visible write of the inner one, and the outer one, still open, holds
\* writes of its own over a store that holds data.
C15_Witness ==
    /\ call.op = "rollback"
    /\ call.depth = 2
    /\ call.visible
    /\ Len(transactions_opened) = 1
    /\ DOMAIN tdata /= {}
    /\ DOMAIN data /= {}

\* C16: while at least one transaction is open, set, unset, get,
\* num_equal_to, begin and rollback leave the store's mapping and the
\* store's frequency index unchanged; only commit changes the store then.
\* Every call of set, unset, begin and rollback made with a transaction open,
\* nested begin and nested rollback included, is a step of the behaviours;
\* get and num_equal_to are called on every key and value in every
\* reachable state with a transaction open.
C16_StoreFrozenInTransaction ==
    /\ [][(is_transaction_active(DB) /\ call'.op /= "commit") =>
             /\ call'.op \in {"set", "unset", "get", "num_equal_to",
                              "begin", "rollback"}
             /\ data' = data
             /\ values_freq' = values_freq]_vars
    /\ [](is_transaction_active(DB) =>
             /\ \A k \in Keys :
                   /\ Database_get_call(DB, k).db.data = data
                   /\ Database_get_call(DB, k).db.values_freq = values_freq
             /\ \A v \in Values :
                   /\ Database_num_equal_to_call(DB, v).db.data = data
                   /\ Database_num_equal_to_call(DB, v).db.values_freq
                          = values_freq)

\* C16's case: a rollback of the inner of two transactions, over a store
\* that holds data, has undone a visible write to a key the outer
\* transaction never wrote, so that the value read for it again is the
\* store's, while the outer transaction holds writes of its own; the store
\* is still not what get returns.
C16_Witness ==
    /\ call.op = "rollback"
    /\ call.depth = 2
    /\ call.visible
    /\ Len(transactions_opened) = 1
    /\ \E k \in DOMAIN data : k \notin DOMAIN tdata
    /\ \E k \in DOMAIN tdata : Database_get(DB, k) /= DictGet(data, k, None)

\* An unset(k) is made in a transaction on a key whose merged value is not
\* absent.
UnsetsHeldKey ==
    /\ call'.op = "unset"
    /\ is_transaction_active(DB)
    /\ Database_get(DB, call'.key) /= None

\* What such an unset(k), of merged value v, does at once: get(k) is absent
\* afterwards, the store is as before, num_equal_to(v) is one lower and no
\* other value's count is higher.
UnsetHides ==
    LET k == call'.key
        v == Database_get(DB, k)
    IN  /\ Database_get(DB', k) = None
        /\ data' = data
        /\ values_freq' = values_freq
        /\ Database_num_equal_to(DB', v) = Database_num_equal_to(DB, v) - 1
        /\ \A w \in Values \ {v} :
              Database_num_equal_to(DB', w) <= Database_num_equal_to(DB, w)

\* C17 as stated: with a transaction open, unset(k) on a key whose merged
\* value is v makes get(k) absent with the store as before, lowers
\* num_equal_to(v) by one and raises no other count, and a following
\* rollback of that transaction makes get(k) return v again.
C17_RollbackGivesBackV ==
    [][UnsetsHeldKey =>
          /\ UnsetHides
          /\ Database_get(Database_rollback(DB').db, call'.key) =
                 Database_get(DB, call'.key)]_vars

\* C17 amended: the same, except that the following rollback makes get(k)
\* return what it returned when that transaction was opened, which is v
\* when the transaction had not written k before the unset.
C17_UnsetInTransaction ==
    [][UnsetsHeldKey =>
          /\ UnsetHides
          /\ Database_get(Database_rollback(DB').db, call'.key) =
                 Database_get(Last(snaps), call'.key)
          /\ call'.key \notin Last(transactions_opened) =>
                 Database_get(Last(snaps), call'.key) = Database_get(DB, call'.key)]_vars

\* C17's case: a transaction opened while its key was absent has set the
\* key and then unset it.
C17_Witness ==
    /\ call.op = "unset"
    /\ call.depth >= 1
    /\ call.changed
    /\ call.visible
    /\ Database_get(DB, call.key) = None
    /\ Database_get(Last(snaps), call.key) = None

\* The (verb, argument count) pairs of the commands: the valid operations
\* and the end operation on its own.
CommandPairs ==
    valid_operations_arguments \cup {<<e, 0>> : e \in end_operation}

\* A line with a verb whose (verb, argument count) pair is not a command's.
InvalidLine(fields) ==
    /\ Len(fields) > 0
    /\ <<Upper(fields[1]), Len(fields) - 1>> \notin CommandPairs

\* The line prints the diagnostic, changes nothing of the database and
\* leaves the session reading.
Rejected(db, fields) ==
    LET r == read_from_stdin(db, fields)
    IN  /\ r.out = RetStr("Invalid method or number of arguments")
        /\ r.db = db
        /\ r.session = "active"

\* C18 as stated: every line whose (verb, argument count) pair is not one of
\* GET/1, SET/2, UNSET/1, NUMEQUALTO/1, BEGIN/0, ROLLBACK/0, COMMIT/0, END/0
\* prints 'Invalid method or number of arguments', changes no database state
\* and lets the session go on to the next line.
C18_EveryInvalidLineRejected ==
    session = "active" =>
        \A fields \in Lines : InvalidLine(fields) => Rejected(DB, fields)

\* C18 amended: every such line whose verb is not END is rejected in that
\* way; a line whose verb is END ends the session whatever follows the verb,
\* printing nothing and changing nothing.
C18_InvalidLineRejected ==
    session = "active" =>
        \A fields \in Lines :
            InvalidLine(fields) =>
                IF Upper(fields[1]) \in end_operation
                THEN LET r == read_from_stdin(DB, fields)
                     IN  /\ r.out = RetNone
                         /\ r.db = DB
                         /\ r.session = "ended"
                ELSE Rejected(DB, fields)

\* C18's case: a line that is not a command has been read inside a
\* transaction over a store that holds data; the diagnostic is printed and
\* the session still reads.
C18_Witness ==
    /\ call.op = "invalid"
    /\ output = RetStr("Invalid method or number of arguments")
    /\ session = "active"
    /\ ~call.changed
    /\ Len(transactions_opened) = 1
    /\ DOMAIN data /= {}

\* The open transactions whose set of modified keys contains k.
Writers(db, k) ==
    {j \in 1..Len(db.transactions_opened) : k \in db.transactions_opened[j]}

\* The history of k: its list in the handler's data, empty when k has none.
History(db, k) == DictGet(db.tdata, k, <<>>)

\* C21: in every reachable state and for every key k, the length of k's
\* history is the number of open transactions whose set of modified keys
\* contains k; a transaction's first write to k appends one entry and adds
\* k to its set, and each later write to k by the same transaction
\* overwrites that last entry in place.
C21_OneEntryPerWriter ==
    /\ [](\A k \in Keys : Len(History(DB, k)) = Cardinality(Writers(DB, k)))
    /\ [][(/\ call'.op \in {"set", "unset"}
            /\ is_transaction_active(DB)
            /\ call'.changed) =>
             LET k == call'.key
                 n == Len(transactions_opened)
                 written == IF call'.op = "set" THEN call'.value ELSE None
             IN  IF k \in transactions_opened[n]
                 THEN /\ History(DB', k) = SetLast(History(DB, k), written)
                      /\ transactions_opened' = transactions_opened
                 ELSE /\ History(DB', k) = Append(History(DB, k), written)
                      /\ transactions_opened' =
                             [transactions_opened EXCEPT ![n] = @ \cup {k}]]_vars

\* C21's case: two transactions are open; one key was written by both and
\* has two entries, the other only by the inner one and has one.
C21_Witness ==
    /\ Len(transactions_opened) = 2
    /\ \E k \in Keys : Len(History(DB, k)) = 2
    /\ \E k \in Keys : /\ Len(History(DB, k)) = 1
                       /\ k \notin transactions_opened[1]

\* C22: rollback() with exactly one transaction open leaves none open and
\* empties the history and the frequency delta, so that afterwards get
\* returns the store's value for every key and num_equal_to the store's
\* count for every value.
C22_LastRollbackClears ==
    [][(call'.op = "rollback" /\ Len(transactions_opened) = 1) =>
          /\ transactions_opened' = <<>>
          /\ DOMAIN tdata' = {}
          /\ DOMAIN tfreq' = {}
          /\ \A k \in Keys : Database_get(DB', k) = DictGet(data', k, None)
          /\ \A v \in Values :
                Database_num_equal_to(DB', v) = DictGet(values_freq', v, 0)]_vars

\* C22's case: a rollback has closed the only open transaction, whose writes
\* were visible, over a store that maps every key.
C22_Witness ==
    /\ call.op = "rollback"
    /\ call.depth = 1
    /\ ret = RetBool(TRUE)
    /\ call.visible
    /\ DOMAIN data = Keys

\* C23: in every reachable state no key is in the history with an empty
\* list of entries, and a key is found by the handler exactly when some open
\* transaction has written it.
C23_HistorySparse ==
    \A k \in Keys :
        /\ k \in DOMAIN tdata => Len(tdata[k]) > 0
        /\ k \in DOMAIN tdata <=> Writers(DB, k) /= {}
        /\ TransactionHandler_get(DB, k).found <=> Writers(DB, k) /= {}

\* C23's case: a rollback of the inner of two transactions has popped the
\* only entries of the keys it wrote, visibly, and the history is empty
\* while the outer transaction is still open.
C23_Witness ==
    /\ call.op = "rollback"
    /\ call.depth = 2
    /\ call.visible
    /\ Len(transactions_opened) = 1
    /\ DOMAIN tdata = {}

\* C24: begin() in any reachable state raises the number of open
\* transactions by one, the new one with an empty set of modified keys, and
\* leaves the store, the history, the frequency delta, every get(k) and
\* every num_equal_to(v) unchanged.
C24_BeginFrame ==
    [][call'.op = "begin" =>
          /\ transactions_opened' = Append(transactions_opened, {})
          /\ data' = data
          /\ values_freq' = values_freq
          /\ tdata' = tdata
          /\ tfreq' = tfreq
          /\ \A k \in Keys : Database_get(DB', k) = Database_get(DB, k)
          /\ \A v \in Values :
                Database_num_equal_to(DB', v) = Database_num_equal_to(DB, v)]_vars

\* C24's case: begin() has been called inside a transaction that holds
\* writes, over a store that holds data.
C24_Witness ==
    /\ call.op = "begin"
    /\ call.depth = 1
    /\ Len(transactions_opened) = 2
    /\ Last(transactions_opened) = {}
    /\ DOMAIN tdata /= {}
    /\ DOMAIN data /= {}

\* n calls of rollback() in a row from db each return True and end with no
\* transaction open and the store of `opened`; the call after them returns
\* False.
RECURSIVE RollbacksSucceed(_, _, _)
RollbacksSucceed(db, n, opened) ==
    \E r \in {Database_rollback(db)} :
        IF n = 0
        THEN /\ r.ret = RetBool(FALSE)
             /\ db.transactions_opened = <<>>
             /\ db.data = opened.data
             /\ db.values_freq = opened.values_freq
        ELSE /\ r.ret = RetBool(TRUE)
             /\ RollbacksSucceed(r.db, n - 1, opened)

\* C25: from any reachable state with n >= 1 transactions open, n calls of
\* rollback() in a row each return True, end with no transaction open and
\* leave the store as it was when the outermost of them was opened; the
\* call after them returns False.
C25_RollbackAll ==
    Len(transactions_opened) >= 1 =>
        RollbacksSucceed(DB, Len(transactions_opened), snaps[1])

\* C25's case: two transactions are open, each has written, the last call
\* was a write that changed what is read, and the store holds data.
C25_Witness ==
    /\ Len(transactions_opened) = 2
    /\ transactions_opened[1] /= {}
    /\ transactions_opened[2] /= {}
    /\ call.op \in {"set", "unset"}
    /\ call.visible
    /\ DOMAIN data /= {}

\* C26: get(k) and num_equal_to(v) are read-only in every reachable state:
\* for every key and value, present or not, a call leaves the store's
\* mapping and index, the history, the frequency delta and the list of open
\* transactions unchanged.
C26_ReadsChangeNothing ==
    [][call'.op \in {"get", "num_equal_to"} =>
          /\ data' = data
          /\ values_freq' = values_freq
          /\ tdata' = tdata
          /\ tfreq' = tfreq
          /\ transactions_opened' = transactions_opened]_vars

\* C26's case: inside a transaction that holds writes over a store that
\* holds data, get has been called on a key neither of them has, and has
\* returned None.
C26_Witness ==
    /\ call.op = "get"
    /\ call.depth = 1
    /\ ret = RetNone
    /\ call.key \notin DOMAIN data
    /\ call.key \notin DOMAIN tdata
    /\ DOMAIN data /= {}
    /\ DOMAIN tdata /= {}

\* C27: whenever unset(k) called with no transaction open fails with an
\* error, it fails before any mutation: the store's mapping and index and
\* the empty transaction state are what they were before the call.
C27_FailedUnsetChangesNothing ==
    [][(/\ call'.op = "unset"
        /\ ~is_transaction_active(DB)
        /\ ret'.kind = "raise") =>
          /\ data' = data
          /\ values_freq' = values_freq
          /\ tdata' = EmptyDict
          /\ tfreq' = EmptyDict
          /\ transactions_opened' = <<>>]_vars

\* C27's case: unset has been called with no transaction open on a key the
\* store holds, and has raised.
C27_Witness ==
    /\ call.op = "unset"
    /\ call.depth = 0
    /\ ret = Raise("AttributeError")
    /\ call.key \in DOMAIN data

\* C28: in every reachable state neither frequency index, the store's or
\* the handler's delta, has an entry whose count is 0 or whose value is
\* None; the delta may hold negative counts, the store's index holds none.
C28_NoZeroNoNone ==
    /\ \A v \in DOMAIN values_freq : v /= None /\ values_freq[v] > 0
    /\ \A v \in DOMAIN tfreq : v /= None /\ tfreq[v] /= 0

\* C28's case: inside a transaction the delta holds a negative count for a
\* value the store's index counts, after a write that took the value away.
C28_Witness ==
    /\ call.op \in {"set", "unset"}
    /\ call.depth >= 1
    /\ \E v \in DOMAIN tfreq : tfreq[v] < 0 /\ v \in DOMAIN values_freq

====
